---- MODULE Spec2Model ----
(***************************************************************************)
(* A model of src/src/state.rs: the fixed-timestep circle simulation.      *)
(*                                                                         *)
(* Numbers.  The source computes in f64.  Here every length is an integer  *)
(* number of grid steps, Unit steps to one source unit, and every time is  *)
(* an integer number of time steps, SubTicks steps to one TICK_DURATION.   *)
(* Unit is a multiple of TPS*TPS, so TICK_GRAVITY = GRAVITY / TPS^2 is a   *)
(* whole number of grid steps (125 * 2^8), which the collision step can    *)
(* halve eight times before a half falls between two grid steps; `/ 2.`    *)
(* then rounds down to the grid.                                           *)
(*                                                                         *)
(* Geometry.  A DVec2 is a pair <<x, y>>.  The cursor is drawn from the    *)
(* vertical line through CENTRE; a body created on that line stays on it   *)
(* (gravity acts on y only, and both projections of `tick` keep x when all *)
(* bodies share it), so the difference of any two points the code takes    *)
(* the length of has x = 0 and its length is |y|, which sqrt gives exactly.*)
(* The one value of the source that is not a number, the NaN vector that   *)
(* `normalize` returns for the zero vector, is the value NaNVec.           *)
(***************************************************************************)
EXTENDS Integers, Sequences, FiniteSets, TLC

(* ------------------------------------------------------------------ *)
(* Bounds of the model                                                 *)
(* ------------------------------------------------------------------ *)

\* Time steps per tick: a frame delta is a whole number of 1/(TPS*SubTicks) s.
SubTicks == 2
\* The largest frame delta, in time steps.
MaxDt == 3
\* random() is drawn from {0/RandSteps, ..., (RandSteps-1)/RandSteps}.
RandSteps == 2
\* The sum of the frame deltas over a whole run of Spec, in time steps.
MaxTime == 5
\* Ticks applied to one drawn world in SpecTick.
MaxTickSteps == 1

(* ------------------------------------------------------------------ *)
(* Constants of the program                                            *)
(* ------------------------------------------------------------------ *)

TPS == 128
GRAVITY == 500
REPETIIONS == 4
\* Window height of the enclosing crate (super::HEIGHT).
HEIGHT == 800
WIDTH == 800

\* Grid steps per source unit of length.
Unit == TPS * TPS * 64
\* Time steps per second.
Second == TPS * SubTicks

SMALLEST_RADIUS == 5 * Unit
LARGEST_RADIUS == 30 * Unit
OUTER_RADIUS == 350 * Unit
TICK_DURATION == Second \div TPS
TICK_GRAVITY == (GRAVITY * Unit) \div (TPS * TPS)
CENTRE == <<(WIDTH * Unit) \div 2, (HEIGHT * Unit) \div 2>>

Controls == {"Clear", "LeftMouse", "RightMouse"}

(* ------------------------------------------------------------------ *)
(* glam::DVec2                                                         *)
(* ------------------------------------------------------------------ *)

\* The vector whose components are NaN.
NaNVec == <<>>

IsNaN(v) == v = NaNVec

Abs(n) == IF n < 0 THEN 0 - n ELSE n

Max2(a, b) == IF a >= b THEN a ELSE b

Min2(a, b) == IF a <= b THEN a ELSE b

VAdd(a, b) == IF IsNaN(a) \/ IsNaN(b) THEN NaNVec ELSE <<a[1] + b[1], a[2] + b[2]>>

VSub(a, b) == IF IsNaN(a) \/ IsNaN(b) THEN NaNVec ELSE <<a[1] - b[1], a[2] - b[2]>>

\* v * k
VScale(v, k) == IF IsNaN(v) THEN NaNVec ELSE <<v[1] * k, v[2] * k>>

\* v / 2.
VHalf(v) == IF IsNaN(v) THEN NaNVec ELSE <<v[1] \div 2, v[2] \div 2>>

\* v.y += k
AddY(v, k) == IF IsNaN(v) THEN NaNVec ELSE <<v[1], v[2] + k>>

\* v.length() of a finite vector on the vertical axis (v[1] = 0).
length(v) == Abs(v[2])

\* a.distance(b) of finite points
distance(a, b) == length(VSub(a, b))

\* v.length_squared() < s * s, s >= 0.  Squares exceed TLC's 32-bit integers,
\* so the lengths are compared; a comparison with NaN is false.
LengthSquaredLess(v, s) == ~IsNaN(v) /\ length(v) < s

\* v.length_squared() > s * s, s >= 0; false for NaN.
LengthSquaredGreater(v, s) == ~IsNaN(v) /\ length(v) > s

\* v.normalize(): v * (1 / v.length()).  The zero vector gives 0 * inf = NaN
\* in both components.  On the axis the unit vector is <<0, 1>> or <<0, -1>>.
normalize(v) ==
    IF IsNaN(v) \/ length(v) = 0 THEN NaNVec
    ELSE <<v[1] \div length(v), v[2] \div length(v)>>

(* ------------------------------------------------------------------ *)
(* Circle                                                              *)
(* ------------------------------------------------------------------ *)

Circle_new(position, radius) ==
    [position |-> position, last_position |-> position, radius |-> radius]

point_within(c, pos) ==
    LengthSquaredLess(VSub(c.position, pos), c.radius)

(* ------------------------------------------------------------------ *)
(* State::tick                                                         *)
(* ------------------------------------------------------------------ *)

\* Integrate with last_position assigned after the move: it takes the new
\* position, not the old one.
IntegrateLateLast(c) ==
    LET moved == VAdd(c.position, VSub(c.position, c.last_position))
    IN  [c EXCEPT !.position = AddY(moved, TICK_GRAVITY), !.last_position = moved]

\* The first loop of tick, for one circle.
Integrate(c) ==
    LET last == c.position
        moved == VAdd(c.position, VSub(c.position, c.last_position))
    IN  [c EXCEPT !.position = AddY(moved, TICK_GRAVITY), !.last_position = last]

IntegrateAll(cs) == [k \in 1..Len(cs) |-> Integrate(cs[k])]

\* ResolvePair with the offset not halved: each body is moved the whole sum
\* of the radii from the midpoint.
ResolvePairFullOffset(cs, i, j) ==
    LET a == cs[i]
        b == cs[j]
        sum_radii == a.radius + b.radius
    IN  IF LengthSquaredLess(VSub(a.position, b.position), sum_radii)
        THEN LET midpoint == VHalf(VAdd(a.position, b.position))
                 offset == VScale(normalize(VSub(a.position, b.position)), sum_radii)
             IN  [cs EXCEPT ![i].position = VAdd(midpoint, offset),
                            ![j].position = VSub(midpoint, offset)]
        ELSE cs

\* The body of the pair loop for the pair (i, j).
ResolvePair(cs, i, j) ==
    LET a == cs[i]
        b == cs[j]
        sum_radii == a.radius + b.radius
    IN  IF LengthSquaredLess(VSub(a.position, b.position), sum_radii)
        THEN LET midpoint == VHalf(VAdd(a.position, b.position))
                 offset == VHalf(VScale(normalize(VSub(a.position, b.position)), sum_radii))
             IN  [cs EXCEPT ![i].position = VAdd(midpoint, offset),
                            ![j].position = VSub(midpoint, offset)]
        ELSE cs

\* The pairs (i, j), i < j, in the order the two nested loops visit them.
RECURSIVE PairOrder(_, _, _)
PairOrder(n, i, j) ==
    IF i >= n THEN <<>>
    ELSE IF j > n THEN PairOrder(n, i + 1, i + 2)
    ELSE <<<<i, j>>>> \o PairOrder(n, i, j + 1)

\* One pass of the body of the pair loop: the circles before and after it.
PairStep(cs, i, j) == [i |-> i, j |-> j, before |-> cs, after |-> ResolvePair(cs, i, j)]

\* The configurations the pair loop goes through: one per pair visited, each
\* starting from the circles the pair before it left.
RECURSIVE PairSteps(_, _)
RECURSIVE PairStepsAfter(_, _)
PairStepsAfter(step, pairs) == <<step>> \o PairSteps(step.after, pairs)

PairSteps(cs, pairs) ==
    IF pairs = <<>> THEN <<>>
    ELSE PairStepsAfter(PairStep(cs, pairs[1][1], pairs[1][2]), Tail(pairs))

\* The third loop of tick, for one circle.
Contain(c) ==
    LET max_dist == OUTER_RADIUS - c.radius
        offset == VSub(c.position, CENTRE)
    IN  IF LengthSquaredGreater(offset, max_dist)
        THEN [c EXCEPT !.position = VAdd(VScale(normalize(offset), max_dist), CENTRE)]
        ELSE c

ContainAll(cs) == [k \in 1..Len(cs) |-> Contain(cs[k])]

\* One repetition: what it did to each pair, the circles after the pair loop
\* and the circles after the containment loop.
Resolved(cs, steps) == IF steps = <<>> THEN cs ELSE steps[Len(steps)].after

RepetitionOf(cs, steps) ==
    [pairs |-> steps, resolved |-> Resolved(cs, steps),
     contained |-> ContainAll(Resolved(cs, steps))]

Repetition(cs) == RepetitionOf(cs, PairSteps(cs, PairOrder(Len(cs), 1, 2)))

\* The REPETIIONS loop: each repetition starts from the circles the one
\* before it left.
RECURSIVE Repetitions(_, _)
RECURSIVE RepetitionsAfter(_, _)
RepetitionsAfter(rep, n) == <<rep>> \o Repetitions(rep.contained, n)

Repetitions(cs, n) ==
    IF n = 0 THEN <<>> ELSE RepetitionsAfter(Repetition(cs), n - 1)

\* A record of one call of tick: the circles it started from, the circles
\* after the integration loop, and each repetition.
TickRecordOf(cs, integrated, reps) ==
    [start |-> cs, integrated |-> integrated, reps |-> reps,
     end |-> reps[Len(reps)].contained]

TickRecord(cs) ==
    TickRecordOf(cs, IntegrateAll(cs), Repetitions(IntegrateAll(cs), REPETIIONS))

tick(cs) == TickRecord(cs).end

(* ------------------------------------------------------------------ *)
(* State::update: the edits                                            *)
(* ------------------------------------------------------------------ *)

\* JustPressed without the test of the previous frame: level-triggered.
Pressed(cur, last, k) == cur[k]

\* inputs[k] && !inputs.last(k)
JustPressed(cur, last, k) == cur[k] /\ ~last[k]

\* CircleClearance measuring to each circle's centre, not to its edge.
RECURSIVE CircleClearanceToCentre(_, _, _, _)
CircleClearanceToCentre(cs, mouse, k, upper) ==
    IF k > Len(cs) THEN upper
    ELSE LET dist == distance(cs[k].position, mouse)
         IN  CircleClearanceToCentre(cs, mouse, k + 1,
                 IF ~IsNaN(cs[k].position) /\ dist < upper THEN dist ELSE upper)

\* The loop over the circles in the spawn branch: the smallest of `upper`
\* and each circle's clearance.  `distance < upper` is false for a NaN.
RECURSIVE CircleClearance(_, _, _, _)
CircleClearance(cs, mouse, k, upper) ==
    IF k > Len(cs) THEN upper
    ELSE LET dist == distance(cs[k].position, mouse) - cs[k].radius
         IN  CircleClearance(cs, mouse, k + 1,
                 IF ~IsNaN(cs[k].position) /\ dist < upper THEN dist ELSE upper)

\* `upper` after both clearance tests of the spawn branch.
Clearance(cs, mouse) ==
    LET upper == CircleClearance(cs, mouse, 1, LARGEST_RADIUS)
        dist == OUTER_RADIUS - distance(CENTRE, mouse)
    IN  IF dist < upper THEN dist ELSE upper

\* Spawn without the test `upper >= lower`: a body is pushed whatever the
\* clearance.
SpawnUnchecked(cs, mouse, r1, r2) ==
    LET lower == SMALLEST_RADIUS
        radius == lower + (Max2(r1, r2) * (LARGEST_RADIUS - lower)) \div RandSteps
        upper == Clearance(cs, mouse)
    IN  Append(cs, Circle_new(mouse, Min2(radius, upper)))

\* The spawn branch; r1 and r2 are the two draws of random(), in 1/RandSteps.
\* (The colour, three more draws, is not modelled: nothing reads it but render.)
Spawn(cs, mouse, r1, r2) ==
    LET lower == SMALLEST_RADIUS
        radius == lower + (Max2(r1, r2) * (LARGEST_RADIUS - lower)) \div RandSteps
        upper == Clearance(cs, mouse)
    IN  IF upper >= lower
        THEN Append(cs, Circle_new(mouse, Min2(radius, upper)))
        ELSE cs

\* Vec::swap_remove(i): the last element takes the place of element i.
swap_remove(cs, i) == SubSeq([cs EXCEPT ![i] = cs[Len(cs)]], 1, Len(cs) - 1)

\* RemoveLoop advancing i after a removal too: the element swapped into
\* place i is never tested.
RECURSIVE RemoveLoopSkip(_, _, _)
RemoveLoopSkip(cs, mouse, i) ==
    IF i > Len(cs) THEN cs
    ELSE IF point_within(cs[i], mouse) THEN RemoveLoopSkip(swap_remove(cs, i), mouse, i + 1)
    ELSE RemoveLoopSkip(cs, mouse, i + 1)

\* The while loop of the remove branch.
RECURSIVE RemoveLoop(_, _, _)
RemoveLoop(cs, mouse, i) ==
    IF i > Len(cs) THEN cs
    ELSE IF point_within(cs[i], mouse) THEN RemoveLoop(swap_remove(cs, i), mouse, i)
    ELSE RemoveLoop(cs, mouse, i + 1)

RemoveAt(cs, mouse) == RemoveLoop(cs, mouse, 1)

\* Edits with the remove branch run before the spawn branch.
EditsRemoveFirst(cs, cur, last, mouse, r1, r2) ==
    LET cleared == IF JustPressed(cur, last, "Clear") THEN <<>> ELSE cs
        removed == IF JustPressed(cur, last, "RightMouse")
                   THEN RemoveAt(cleared, mouse) ELSE cleared
        spawned == IF JustPressed(cur, last, "LeftMouse")
                   THEN Spawn(removed, mouse, r1, r2) ELSE removed
    IN  [afterClear |-> cleared, afterSpawn |-> spawned, afterRemove |-> spawned]

\* The three edit branches of update, in the order the code runs them.
Edits(cs, cur, last, mouse, r1, r2) ==
    LET cleared == IF JustPressed(cur, last, "Clear") THEN <<>> ELSE cs
        spawned == IF JustPressed(cur, last, "LeftMouse")
                   THEN Spawn(cleared, mouse, r1, r2) ELSE cleared
        removed == IF JustPressed(cur, last, "RightMouse")
                   THEN RemoveAt(spawned, mouse) ELSE spawned
    IN  [afterClear |-> cleared, afterSpawn |-> spawned, afterRemove |-> removed]

\* TickDue with > for >=: a whole tick can stay in the accumulator.
TickDueStrict(acc) == acc > TICK_DURATION

\* while self.accumulator >= TICK_DURATION
TickDue(acc) == acc >= TICK_DURATION

\* The accumulator loop: the records of the ticks it runs and what it leaves.
RECURSIVE Drain(_, _, _)
RECURSIVE DrainAfter(_, _, _)
DrainAfter(acc, rec, done) == Drain(acc - TICK_DURATION, rec.end, Append(done, rec))

Drain(acc, cs, done) ==
    IF TickDue(acc)
    THEN DrainAfter(acc, TickRecord(cs), done)
    ELSE [accumulator |-> acc, circles |-> cs, ticks |-> done]

(* ------------------------------------------------------------------ *)
(* The state machine                                                   *)
(* ------------------------------------------------------------------ *)

VARIABLES
    accumulator,  \* State.accumulator, in time steps
    circles,      \* State.circles
    held,         \* the controls as of the latest frame: inputs.last in the next
    mouse,        \* inputs.mouse_position() of the latest frame
    frame,        \* what the latest call of update did, step by step
    totalDt,      \* the sum of the frame deltas so far
    totalTicks    \* the number of calls of tick so far

vars == <<accumulator, circles, held, mouse, frame, totalDt, totalTicks>>

NoFrame ==
    [fired |-> [k \in Controls |-> FALSE],
     afterClear |-> <<>>, afterSpawn |-> <<>>, afterRemove |-> <<>>, ticks |-> <<>>]

\* Cursor positions: on the vertical line through CENTRE, below it by these
\* many grid steps.  The second lies 2^-15 units past 340, a value an f32
\* coordinate can hold.
MouseOffsets == {335 * Unit, 340 * Unit + Unit \div 32768, 345 * Unit}

MousePositions == {<<CENTRE[1], CENTRE[2] + d>> : d \in MouseOffsets}

DeltaTimes == 0..MaxDt

Randoms == 0..(RandSteps - 1)

ControlStates == [Controls -> BOOLEAN]

\* The input collaborator: what inputs.last reports in the next frame is
\* what inputs reported in this one.
InputsLast(cur) == cur

\* State::new, and an input collaborator that has seen no control pressed.
Init ==
    /\ accumulator = 0
    /\ circles = <<>>
    /\ held = [k \in Controls |-> FALSE]
    /\ mouse = CENTRE
    /\ frame = NoFrame
    /\ totalDt = 0
    /\ totalTicks = 0

\* One call of State::update(dt, inputs).
update(dt, cur, pos, r1, r2) ==
    /\ totalDt + dt <= MaxTime
    /\ \E edits \in {Edits(circles, cur, held, pos, r1, r2)} :
       \E drained \in {Drain(accumulator + dt, edits.afterRemove, <<>>)} :
        /\ accumulator' = drained.accumulator
        /\ circles' = drained.circles
        /\ held' = InputsLast(cur)
        /\ mouse' = pos
        /\ frame' = [fired |-> [k \in Controls |-> JustPressed(cur, held, k)],
                     afterClear |-> edits.afterClear,
                     afterSpawn |-> edits.afterSpawn,
                     afterRemove |-> edits.afterRemove,
                     ticks |-> drained.ticks]
        /\ totalDt' = totalDt + dt
        /\ totalTicks' = totalTicks + Len(drained.ticks)

\* A frame in which neither mouse button is newly pressed: update reads the
\* cursor and uses it nowhere, and random() is not called.  The cursor is
\* left where it was.
UpdateNoCursorEdit ==
    \E dt \in DeltaTimes, cur \in ControlStates :
        /\ ~JustPressed(cur, held, "LeftMouse")
        /\ ~JustPressed(cur, held, "RightMouse")
        /\ update(dt, cur, mouse, 0, 0)

\* A frame in which only the right button is newly pressed: random() is not
\* called.
UpdateRemove ==
    \E dt \in DeltaTimes, cur \in ControlStates, pos \in MousePositions :
        /\ ~JustPressed(cur, held, "LeftMouse")
        /\ JustPressed(cur, held, "RightMouse")
        /\ update(dt, cur, pos, 0, 0)

\* A frame in which the left button is newly pressed: random() is called twice.
UpdateSpawn ==
    \E dt \in DeltaTimes, cur \in ControlStates, pos \in MousePositions,
       r1 \in Randoms, r2 \in Randoms :
        /\ JustPressed(cur, held, "LeftMouse")
        /\ update(dt, cur, pos, r1, r2)

Next == UpdateNoCursorEdit \/ UpdateRemove \/ UpdateSpawn

Spec == Init /\ [][Next]_vars

(* ------------------------------------------------------------------ *)
(* tick as a function of the circles it is given                       *)
(* ------------------------------------------------------------------ *)

\* Heights below CENTRE, velocities per tick and radii of the drawn bodies,
\* in source units: two heights near the centre and two near the boundary.
TickYs == {0, 15, 340, 348}

TickVs == {0, 3}

TickRadii == {5, 10}

TickBody(y, v, r) ==
    [position |-> <<CENTRE[1], CENTRE[2] + y * Unit>>,
     last_position |-> <<CENTRE[1], CENTRE[2] + (y - v) * Unit>>,
     radius |-> r * Unit]

TickBodies == {TickBody(y, v, r) : y \in TickYs, v \in TickVs, r \in TickRadii}

NearCentre(c) == distance(c.position, CENTRE) < OUTER_RADIUS \div 2

\* The drawn worlds: every one or two bodies, and every three of which two
\* are near the centre and one near the boundary, or the reverse.  (Three
\* bodies in one chain take more than eight halvings in a tick: see above.)
TickWorlds ==
    [1..1 -> TickBodies] \cup [1..2 -> TickBodies] \cup
    {w \in [1..3 -> TickBodies] : \E i, j \in 1..3 : NearCentre(w[i]) # NearCentre(w[j])}

InitTick ==
    /\ accumulator = 0
    /\ circles \in TickWorlds
    /\ held = [k \in Controls |-> FALSE]
    /\ mouse = CENTRE
    /\ frame = NoFrame
    /\ totalDt = 0
    /\ totalTicks = 0

\* One call of State::tick.
TickStep ==
    /\ totalTicks < MaxTickSteps
    /\ circles' = tick(circles)
    /\ frame' = [frame EXCEPT !.ticks = <<TickRecord(circles)>>]
    /\ totalTicks' = totalTicks + 1
    /\ UNCHANGED <<accumulator, held, mouse, totalDt>>

NextTick == TickStep

SpecTick == InitTick /\ [][NextTick]_vars

(* ------------------------------------------------------------------ *)
(* Vocabulary of the claims                                            *)
(* ------------------------------------------------------------------ *)

Range(seq) == {seq[k] : k \in 1..Len(seq)}

Count(seq, c) == Cardinality({k \in 1..Len(seq) : seq[k] = c})

Finite(c) == ~IsNaN(c.position)

\* The body is a number of grid steps from the arena centre, and no more of
\* them than OUTER_RADIUS - radius.
Contained(c) == Finite(c) /\ distance(c.position, CENTRE) <= OUTER_RADIUS - c.radius

\* The point lies strictly inside the body.
StrictlyInside(c, pos) == Finite(c) /\ distance(c.position, pos) < c.radius

Rising(k) == frame.fired[k]

\* In tick record t, body k met no other body and not the boundary.
Untouched(t, k) ==
    \A n \in 1..Len(t.reps) :
        /\ \A m \in 1..Len(t.reps[n].pairs) :
              LET step == t.reps[n].pairs[m]
                  a == step.before[step.i]
                  b == step.before[step.j]
              IN  k \in {step.i, step.j} =>
                      distance(a.position, b.position) >= a.radius + b.radius
        /\ distance(t.reps[n].resolved[k].position, CENTRE)
               <= OUTER_RADIUS - t.reps[n].resolved[k].radius

(* ------------------------------------------------------------------ *)
(* The claims                                                          *)
(* ------------------------------------------------------------------ *)

\* C1: over any sequence of update calls the number of ticks run is
\* floor(sum of the frame deltas / TICK_DURATION) and the accumulator is the
\* remainder, so it is >= 0 and < TICK_DURATION (the accumulator starts at 0;
\* a frame with dt = 0 leaves both sides unchanged, so it runs no tick).
C1_AccumulatorConservation ==
    /\ totalTicks = totalDt \div TICK_DURATION
    /\ accumulator = totalDt % TICK_DURATION
    /\ accumulator >= 0
    /\ accumulator < TICK_DURATION

\* Two ticks in different frames, with time left over.
C1_Witness ==
    /\ totalTicks = 2
    /\ Len(frame.ticks) = 1
    /\ accumulator > 0

\* C2: after every tick, and after each of its relaxation passes, every body
\* is within OUTER_RADIUS - radius of the arena centre, whatever circles the
\* tick was given.
C2_Containment ==
    \A n \in 1..Len(frame.ticks) :
        LET t == frame.ticks[n]
        IN  /\ \A k \in 1..Len(t.end) : Contained(t.end[k])
            /\ \A r \in 1..Len(t.reps) :
                  \A k \in 1..Len(t.reps[r].contained) : Contained(t.reps[r].contained[k])

\* C3: every body a spawn creates, and every body of every state, has a
\* radius from SMALLEST_RADIUS to LARGEST_RADIUS, and a tick changes no radius.
C3_RadiusRange ==
    /\ \A c \in Range(circles) \cup Range(frame.afterSpawn) :
          c.radius >= SMALLEST_RADIUS /\ c.radius <= LARGEST_RADIUS
    /\ \A n \in 1..Len(frame.ticks) :
          \A k \in 1..Len(frame.ticks[n].start) :
              frame.ticks[n].end[k].radius = frame.ticks[n].start[k].radius

\* A spawn whose radius a clearance cut down, followed by a tick.
C3_Witness ==
    /\ Rising("LeftMouse")
    /\ Len(frame.afterSpawn) = Len(frame.afterClear) + 1
    /\ frame.afterSpawn[Len(frame.afterSpawn)].radius > SMALLEST_RADIUS
    /\ frame.afterSpawn[Len(frame.afterSpawn)].radius < 10 * Unit
    /\ frame.ticks # <<>>
    /\ circles # <<>>

\* C4: a spawn with the cursor strictly inside an existing body creates
\* nothing; a spawn creates a body only when the clearance to every existing
\* body and to the arena boundary is at least SMALLEST_RADIUS.
C4_SpawnRejection ==
    /\ (\E c \in Range(frame.afterClear) : StrictlyInside(c, mouse))
          => frame.afterSpawn = frame.afterClear
    /\ frame.afterSpawn # frame.afterClear =>
          /\ \A c \in Range(frame.afterClear) :
                distance(c.position, mouse) - c.radius >= SMALLEST_RADIUS
          /\ OUTER_RADIUS - distance(CENTRE, mouse) >= SMALLEST_RADIUS

\* The left button newly pressed with the cursor strictly inside a body.
C4_Witness ==
    /\ Rising("LeftMouse")
    /\ \E c \in Range(frame.afterClear) : StrictlyInside(c, mouse)
    /\ frame.afterSpawn = frame.afterClear

\* C5: the remove edit removes exactly the bodies the cursor is strictly
\* inside; every other body stays, with its position, previous position and
\* radius.
C5_RemoveExact ==
    Rising("RightMouse") =>
        \A c \in Range(frame.afterSpawn) \cup Range(frame.afterRemove) :
            Count(frame.afterRemove, c) =
                IF StrictlyInside(c, mouse) THEN 0 ELSE Count(frame.afterSpawn, c)

\* Two bodies, adjacent in the collection and one of them last, removed by
\* one call.
C5_Witness ==
    /\ Rising("RightMouse")
    /\ Len(frame.afterSpawn) = Len(frame.afterRemove) + 2

\* C6: each edit is applied only in a frame where its control is true and
\* was false in the frame before; a control held over from the frame before
\* applies nothing.
C6_RisingEdgeOnly ==
    [][ /\ \A k \in Controls : frame'.fired[k] <=> (held'[k] /\ ~held[k])
        /\ frame'.afterClear # circles => (held'["Clear"] /\ ~held["Clear"])
        /\ frame'.afterSpawn # frame'.afterClear
              => (held'["LeftMouse"] /\ ~held["LeftMouse"])
        /\ frame'.afterRemove # frame'.afterSpawn
              => (held'["RightMouse"] /\ ~held["RightMouse"]) ]_vars

\* Clear held over from an earlier frame while bodies exist: they stay.
C6_Witness ==
    /\ held["Clear"]
    /\ ~Rising("Clear")
    /\ frame.afterClear # <<>>

\* C7: a tick of a world in which two bodies have the same position leaves
\* every body with a finite position.
C7_DegenerateHandled ==
    \A n \in 1..Len(frame.ticks) :
        LET t == frame.ticks[n]
        IN  (\E i, j \in 1..Len(t.start) :
                i # j /\ Finite(t.start[i]) /\ t.start[i].position = t.start[j].position)
            => \A k \in 1..Len(t.end) : Finite(t.end[k])

\* C8: resolving a pair with distinct centres that overlaps leaves the two
\* centres sum-of-radii apart, on the same side of each other, with their
\* midpoint where it was; a pair that does not overlap is left as it was; no
\* other body and no radius changes.
C8_PairResolution ==
    \A n \in 1..Len(frame.ticks) :
        \A r \in 1..Len(frame.ticks[n].reps) :
            \A m \in 1..Len(frame.ticks[n].reps[r].pairs) :
                LET step == frame.ticks[n].reps[r].pairs[m]
                    a == step.before[step.i]
                    b == step.before[step.j]
                    A == step.after[step.i]
                    B == step.after[step.j]
                    sum == a.radius + b.radius
                IN  (Finite(a) /\ Finite(b) /\ a.position # b.position) =>
                      /\ \A k \in 1..Len(step.before) :
                            /\ step.after[k].radius = step.before[k].radius
                            /\ step.after[k].last_position = step.before[k].last_position
                            /\ k \notin {step.i, step.j} => step.after[k] = step.before[k]
                      /\ IF distance(a.position, b.position) < sum
                         THEN /\ Finite(A) /\ Finite(B)
                              /\ distance(A.position, B.position) = sum
                              /\ VAdd(A.position, B.position) = VAdd(a.position, b.position)
                              /\ A.position[1] - B.position[1] = 0
                              /\ (A.position[2] > B.position[2])
                                     <=> (a.position[2] > b.position[2])
                         ELSE step.after = step.before

\* Two bodies of radius 10, 15 apart, resolved to 20 apart.
C8_Witness ==
    \E n \in 1..Len(frame.ticks) :
        \E r \in 1..Len(frame.ticks[n].reps) :
            \E m \in 1..Len(frame.ticks[n].reps[r].pairs) :
                LET step == frame.ticks[n].reps[r].pairs[m]
                    a == step.before[step.i]
                    b == step.before[step.j]
                IN  /\ Finite(a) /\ Finite(b)
                    /\ a.radius = 10 * Unit /\ b.radius = 10 * Unit
                    /\ distance(a.position, b.position) = 15 * Unit
                    /\ distance(step.after[step.i].position,
                                step.after[step.j].position) = 20 * Unit

\* C9: the integration step of a tick, once and before the first relaxation
\* pass: previous_position becomes the old position, position becomes
\* 2 * position - previous_position plus TICK_GRAVITY in y alone.  A body that
\* meets nothing ends the tick where integration put it: (0, TICK_GRAVITY)
\* from its start if it was just spawned, and one TICK_GRAVITY further than
\* in the tick before otherwise.
C9_Integration ==
    \A n \in 1..Len(frame.ticks) :
        LET t == frame.ticks[n]
        IN  /\ n = 1 => t.start = frame.afterRemove
            /\ n > 1 => t.start = frame.ticks[n - 1].end
            /\ Len(t.integrated) = Len(t.start)
            /\ Len(t.end) = Len(t.start)
            /\ \A k \in 1..Len(t.start) :
                  LET s == t.start[k]
                      g == t.integrated[k]
                      e == t.end[k]
                  IN  /\ g.last_position = s.position
                      /\ g.position[1] = 2 * s.position[1] - s.last_position[1]
                      /\ g.position[2] =
                             2 * s.position[2] - s.last_position[2] + TICK_GRAVITY
                      /\ e.last_position = s.position
                      /\ Untouched(t, k) => e.position = g.position
                      /\ (Untouched(t, k) /\ s.position = s.last_position)
                             => e.position = <<s.position[1], s.position[2] + TICK_GRAVITY>>

\* A body spawned at rest that falls free through two ticks of one frame:
\* TICK_GRAVITY in the first, twice that in the second.
C9_Witness ==
    /\ Len(frame.ticks) = 2
    /\ \E k \in 1..Len(circles) :
          /\ Untouched(frame.ticks[1], k)
          /\ Untouched(frame.ticks[2], k)
          /\ frame.ticks[1].start[k].position = frame.ticks[1].start[k].last_position
          /\ frame.ticks[1].end[k].position[2]
                 = frame.ticks[1].start[k].position[2] + TICK_GRAVITY
          /\ frame.ticks[2].end[k].position[2]
                 = frame.ticks[2].start[k].position[2] + 2 * TICK_GRAVITY

\* C10 as stated: the edits run in the order clear, spawn, remove, before the
\* first tick, so a frame that newly presses spawn and remove ends with no
\* body containing the cursor, and a frame that newly presses clear and spawn
\* ends with at most one body.
C10_EditOrderAtFrameEnd ==
    /\ (Rising("LeftMouse") /\ Rising("RightMouse"))
          => \A c \in Range(circles) : ~StrictlyInside(c, mouse)
    /\ (Rising("Clear") /\ Rising("LeftMouse")) => Len(circles) <= 1

\* C10 as amended: a frame that newly presses spawn and remove has no body
\* containing the cursor once its edits are done, which is where its first
\* tick starts (the frame's ticks may then move a body over the cursor); a
\* frame that newly presses clear and spawn ends with at most one body.
C10_EditOrderBeforeTicks ==
    /\ (Rising("LeftMouse") /\ Rising("RightMouse"))
          => \A c \in Range(frame.afterRemove) : ~StrictlyInside(c, mouse)
    /\ frame.ticks # <<>> => frame.ticks[1].start = frame.afterRemove
    /\ frame.ticks = <<>> => circles = frame.afterRemove
    /\ Rising("Clear") => frame.afterClear = <<>>
    /\ (Rising("Clear") /\ Rising("LeftMouse"))
          => Len(frame.afterSpawn) <= 1 /\ Len(circles) <= 1

\* Spawn and remove newly pressed together: the body spawned at the cursor
\* is removed in the same frame, and ticks follow.
C10_Witness ==
    /\ Rising("LeftMouse")
    /\ Rising("RightMouse")
    /\ Len(frame.afterSpawn) = Len(frame.afterClear) + 1
    /\ Len(frame.afterRemove) < Len(frame.afterSpawn)
    /\ frame.ticks # <<>>

====
